---- MODULE Spec2Model ----
(***************************************************************************)
(* Model of the AI image filter pipeline (app/services/pipeline_service.py, *)
(* app/api/routes.py, app/services/detection_service.py,                   *)
(* app/services/hash_service.py).                                          *)
(*                                                                         *)
(* Python floats are IEEE-754 binary64.  The verdict function compares     *)
(* floats against decimal literals and sums rounded products, so the model *)
(* computes every float operation as the interpreter does: the exact       *)
(* result rounded to 53 significant bits, ties to even.  A float is a      *)
(* record [neg, man, exp] of value (-1)^neg * man * 2^exp whose mantissa   *)
(* is a natural number of exactly 53 bits (or zero), held as a sequence of *)
(* 15-bit limbs, least significant first.  Every value the pipeline        *)
(* computes lies between 2^-70 and 2^10 in magnitude, so overflow,         *)
(* subnormals, infinities and NaN never arise and are not modelled.        *)
(***************************************************************************)
EXTENDS Integers, Sequences, FiniteSets, TLC

(***************************************************************************)
(* Natural numbers of arbitrary size: sequences of limbs in base 2^15,     *)
(* least significant first, no leading (last) zero limb; zero is << >>.    *)
(***************************************************************************)
LimbBits == 14 + 1

Base == 2^LimbBits

MantBits == 52 + 1

RECURSIVE Pow2(_)
Pow2(k) == IF k = 0 THEN 1 ELSE 2 * Pow2(k - 1)

RECURSIVE BNorm(_)
BNorm(a) ==
    IF a = << >> THEN a
    ELSE IF a[Len(a)] = 0 THEN BNorm(SubSeq(a, 1, Len(a) - 1)) ELSE a

RECURSIVE IntToB(_)
IntToB(n) == IF n = 0 THEN << >> ELSE <<n % Base>> \o IntToB(n \div Base)

RECURSIVE BToInt(_)
BToInt(a) == IF a = << >> THEN 0 ELSE Head(a) + Base * BToInt(Tail(a))

RECURSIVE BAddC(_, _, _)
BAddC(a, b, c) ==
    IF a = << >> /\ b = << >>
    THEN (IF c = 0 THEN << >> ELSE <<c>>)
    ELSE LET x == IF a = << >> THEN 0 ELSE Head(a)
             y == IF b = << >> THEN 0 ELSE Head(b)
             s == x + y + c
         IN  <<s % Base>> \o BAddC(IF a = << >> THEN a ELSE Tail(a),
                                   IF b = << >> THEN b ELSE Tail(b),
                                   s \div Base)

BAdd(a, b) == BAddC(a, b, 0)

\* a - b for a >= b, before normalisation
RECURSIVE BSubC(_, _, _)
BSubC(a, b, c) ==
    IF a = << >> THEN << >>
    ELSE LET y == IF b = << >> THEN 0 ELSE Head(b)
             d == Head(a) - y - c
         IN  <<IF d < 0 THEN d + Base ELSE d>>
             \o BSubC(Tail(a), IF b = << >> THEN b ELSE Tail(b),
                      IF d < 0 THEN 1 ELSE 0)

BSub(a, b) == BNorm(BSubC(a, b, 0))

\* -1, 0, 1 as a < b, a = b, a > b (both normalised)
RECURSIVE BCmpFrom(_, _, _)
BCmpFrom(a, b, i) ==
    IF i = 0 THEN 0
    ELSE IF a[i] < b[i] THEN -1
    ELSE IF a[i] > b[i] THEN 1
    ELSE BCmpFrom(a, b, i - 1)

BCmp(a, b) ==
    IF Len(a) < Len(b) THEN -1
    ELSE IF Len(a) > Len(b) THEN 1
    ELSE BCmpFrom(a, b, Len(a))

\* a * d + c for a single limb d and a carry c < Base
RECURSIVE BMulSmallC(_, _, _)
BMulSmallC(a, d, c) ==
    IF a = << >> THEN (IF c = 0 THEN << >> ELSE <<c>>)
    ELSE LET p == Head(a) * d + c
         IN  <<p % Base>> \o BMulSmallC(Tail(a), d, p \div Base)

BMulSmall(a, d) == BNorm(BMulSmallC(a, d, 0))

RECURSIVE BMul(_, _)
BMul(a, b) ==
    IF a = << >> \/ b = << >> THEN << >>
    ELSE BAdd(BMulSmall(a, Head(b)), BNorm(<<0>> \o BMul(a, Tail(b))))

\* floor(a / d) for a single limb d > 0, from the most significant limb down
RECURSIVE BDivSmallFrom(_, _, _, _)
BDivSmallFrom(a, d, i, r) ==
    IF i = 0 THEN << >>
    ELSE LET n == r * Base + a[i]
         IN  BDivSmallFrom(a, d, i - 1, n % d) \o <<n \div d>>

BDivSmall(a, d) == BNorm(BDivSmallFrom(a, d, Len(a), 0))

Zeros(n) == [i \in 1..n |-> 0]

BShl(a, k) ==
    IF a = << >> THEN a
    ELSE Zeros(k \div LimbBits) \o BMulSmall(a, Pow2(k % LimbBits))

BShr(a, k) ==
    IF Len(a) <= k \div LimbBits THEN << >>
    ELSE BDivSmall(SubSeq(a, (k \div LimbBits) + 1, Len(a)), Pow2(k % LimbBits))

RECURSIVE IntBitLen(_)
IntBitLen(n) == IF n = 0 THEN 0 ELSE 1 + IntBitLen(n \div 2)

BitLen(a) ==
    IF a = << >> THEN 0 ELSE LimbBits * (Len(a) - 1) + IntBitLen(a[Len(a)])

BIsOdd(a) == a # << >> /\ a[1] % 2 = 1

MinInt(a, b) == IF a < b THEN a ELSE b

\* Shared intermediate values are passed as operator parameters throughout,
\* so that each operator evaluates every intermediate value once.

\* q, or q + 1 when the discarded part compares c = 1 (above half), or c = 0
\* (exactly half) with q odd
BRoundUp(q, c) ==
    IF c > 0 \/ (c = 0 /\ BIsOdd(q)) THEN BAdd(q, <<1>>) ELSE q

BShrRoundQ(a, k, q) ==
    BRoundUp(q, BCmp(BSub(a, BShl(q, k)), BShl(<<1>>, k - 1)))

\* round(a / 2^k) to the nearest integer, ties to the even one
BShrRound(a, k) == IF k = 0 THEN a ELSE BShrRoundQ(a, k, BShr(a, k))

\* the largest digit d <= est with b * d <= r
RECURSIVE BDigitFix(_, _, _)
BDigitFix(r, b, est) ==
    IF BCmp(BMulSmall(b, est), r) > 0 THEN BDigitFix(r, b, est - 1) ELSE est

\* floor(r / b) for r < b * Base, b of NormLimbs limbs with its top bit set:
\* the estimate from the leading limbs is at most 2 too large (Knuth 4.3.1 D)
NormLimbs == 3 + 1

BDigitEst(r, top) ==
    IF Len(r) < NormLimbs THEN 0
    ELSE IF Len(r) = NormLimbs THEN r[NormLimbs] \div top
    ELSE MinInt(Base - 1, (r[NormLimbs + 1] * Base + r[NormLimbs]) \div top)

BDigit(r, b) == BDigitFix(r, b, BDigitEst(r, b[NormLimbs]))

\* floor(r * Base^n / b) and whether a remainder is left, for r < b * Base:
\* n + 1 steps of long division, one limb d of the quotient per step
RECURSIVE BDivLimbs(_, _, _, _)
RECURSIVE BDivStep(_, _, _, _, _)
RECURSIVE BDivNext(_, _, _, _)
BDivLimbs(r, b, n, q) == BDivStep(r, b, n, q, BDigit(r, b))

BDivStep(r, b, n, q, d) ==
    BDivNext(BSub(r, BMulSmall(b, d)), b, n, BNorm(<<d>> \o q))

BDivNext(r2, b, n, q2) ==
    IF n = 0 THEN [quo |-> q2, inexact |-> r2 # << >>]
    ELSE BDivLimbs(IF r2 = << >> THEN r2 ELSE <<0>> \o r2, b, n - 1, q2)

(***************************************************************************)
(* binary64 arithmetic                                                     *)
(***************************************************************************)
FZero == [neg |-> FALSE, man |-> << >>, exp |-> 0]

\* q of 53 or 54 bits, value q * 2^e
FRoundQ(neg, e, q) ==
    IF BitLen(q) > MantBits
    THEN [neg |-> neg, man |-> BShr(q, 1), exp |-> e + 1]
    ELSE [neg |-> neg, man |-> q, exp |-> e]

FRoundN(neg, m, e, n) ==
    IF n = 0 THEN FZero
    ELSE IF n <= MantBits
    THEN [neg |-> neg, man |-> BShl(m, MantBits - n), exp |-> e - (MantBits - n)]
    ELSE FRoundQ(neg, e + (n - MantBits), BShrRound(m, n - MantBits))

\* the float nearest to (-1)^neg * m * 2^e, ties to even
FRound(neg, m, e) == FRoundN(neg, m, e, BitLen(m))

FromInt(n) == FRound(n < 0, IntToB(IF n < 0 THEN -n ELSE n), 0)

FIsZero(x) == x.man = << >>

FNeg(x) == IF FIsZero(x) THEN x ELSE [x EXCEPT !.neg = ~x.neg]

FAbs(x) == [x EXCEPT !.neg = FALSE]

\* -1, 0, 1 as |x| < |y|, |x| = |y|, |x| > |y|
FCmpMag(x, y) ==
    IF FIsZero(x) THEN (IF FIsZero(y) THEN 0 ELSE -1)
    ELSE IF FIsZero(y) THEN 1
    ELSE IF x.exp < y.exp THEN -1
    ELSE IF x.exp > y.exp THEN 1
    ELSE BCmp(x.man, y.man)

FCmp(x, y) ==
    IF x.neg # y.neg THEN (IF x.neg THEN -1 ELSE 1)
    ELSE IF x.neg THEN -FCmpMag(x, y) ELSE FCmpMag(x, y)

FGe(x, y) == FCmp(x, y) >= 0

FLe(x, y) == FCmp(x, y) <= 0

FLt(x, y) == FCmp(x, y) < 0

FGt(x, y) == FCmp(x, y) > 0

\* mantissas mx, my aligned to the exponent e, c their comparison
FAddC(xn, yn, mx, my, e, c) ==
    FRound(IF xn = yn \/ c > 0 THEN xn ELSE yn,
           IF xn = yn THEN BAdd(mx, my)
           ELSE IF c >= 0 THEN BSub(mx, my) ELSE BSub(my, mx),
           e)

FAddM(xn, yn, mx, my, e) == FAddC(xn, yn, mx, my, e, BCmp(mx, my))

FAddE(x, y, e) ==
    FAddM(x.neg, y.neg, BShl(x.man, x.exp - e), BShl(y.man, y.exp - e), e)

FAdd(x, y) ==
    IF FIsZero(x) THEN y
    ELSE IF FIsZero(y) THEN x
    ELSE FAddE(x, y, MinInt(x.exp, y.exp))

FSub(x, y) == FAdd(x, FNeg(y))

FMul(x, y) ==
    IF FIsZero(x) \/ FIsZero(y) THEN FZero
    ELSE FRound(x.neg # y.neg, BMul(x.man, y.man), x.exp + y.exp)

\* x / y for y # 0.  Both mantissas are shifted to fill NormLimbs limbs; the
\* quotient gets NormLimbs further limbs (at least 59 bits) and a sticky bit
\* below them, which is then rounded to 53 bits
NormShift == NormLimbs * LimbBits - MantBits

FDivQ(neg, e, d) ==
    FRound(neg, BAdd(BMulSmall(d.quo, 2), IF d.inexact THEN <<1>> ELSE << >>), e)

FDiv(x, y) ==
    IF FIsZero(x) THEN FZero
    ELSE FDivQ(x.neg # y.neg, x.exp - y.exp - (NormLimbs * LimbBits + 1),
               BDivLimbs(BShl(x.man, NormShift), BShl(y.man, NormShift),
                         NormLimbs, << >>))

FMin(x, y) == IF FLt(y, x) THEN y ELSE x

\* a decimal literal n/d of the source text
Lit(n, d) == FDiv(FromInt(n), FromInt(d))

RECURSIVE Pow10(_)
Pow10(k) == IF k = 0 THEN 1 ELSE 10 * Pow10(k - 1)

DecDigitsM(neg, e, m) ==
    IF neg
    THEN -BToInt(IF e >= 0 THEN BShl(m, e) ELSE BShrRound(m, -e))
    ELSE BToInt(IF e >= 0 THEN BShl(m, e) ELSE BShrRound(m, -e))

\* the integer nearest to |x| * 10^nd (ties to even) with the sign of x:
\* the digits that round(x, nd) and the formats .{nd}f produce
DecDigits(x, nd) ==
    IF FIsZero(x) THEN 0 ELSE DecDigitsM(x.neg, x.exp, BMulSmall(x.man, Pow10(nd)))

\* Python's round(x, nd): the float nearest to the decimal nearest to x
PyRound(x, nd) == Lit(DecDigits(x, nd), Pow10(nd))

(***************************************************************************)
(* Literals of pipeline_service.py                                         *)
(***************************************************************************)
ZERO == FZero

ONE == FromInt(1)

HALF == Lit(5, 10)

HUNDRED == FromInt(100)

SIM_HIGH == Lit(85, 100)

SIM_MID == Lit(70, 100)

SIM_SPAN == Lit(15, 100)

SIGNATURE_FACTOR == Lit(4, 10)

C2PA_AI_FACTOR == Lit(2, 10)

C2PA_REAL_FACTOR == Lit(15, 100)

EXIF_HIGH == Lit(7, 10)

EXIF_MID == Lit(3, 10)

EXIF_HIGH_FACTOR == Lit(35, 100)

EXIF_MID_FACTOR == Lit(15, 100)

EXIF_LOW_FACTOR == Lit(25, 100)

INCONSISTENCY_STEP == Lit(5, 100)

INCONSISTENCY_CAP == Lit(15, 100)

\* Python's None; a record, so that it compares with the records it stands in for
NoneVal == [none |-> TRUE]

\* the attributes PipelineService.__init__ sets
InitService ==
    [CONFIDENCE_THRESHOLD |-> Lit(7, 10),
     AI_DETECTION_WEIGHT  |-> Lit(3, 10),
     METADATA_WEIGHT      |-> Lit(4, 10),
     HASH_WEIGHT          |-> Lit(3, 10)]

\* HashService.threshold as PipelineService.__init__ passes it
SIMILARITY_THRESHOLD == Lit(85, 100)

\* f"{x:.1%}": x * 100 as a float, then one decimal; the digits, in tenths of
\* a percent
FmtPct1(x) == DecDigits(FMul(x, HUNDRED), 1)

\* f"{x:.2f}": the digits, in hundredths
Fmt2f(x) == DecDigits(x, 2)

(***************************************************************************)
(* Provider outcomes, drawn from small grids (hundredths for the floats).  *)
(***************************************************************************)
SimGrid == {0, 70, 77, 85, 90, 100}

ExifGrid == {0, 30, 50, 70, 90}

ConfGrid == {70, 90}

\* the grids of the specifications that run two calls
SimGridSmall == {0, 70, 90}

ExifGridSmall == {0, 50}

ConfGridSmall == {70, 90}

MaxInconsistencies == 3

MaxScale == 3

InconsistencyTags ==
    <<"editing_software_without_camera", "custom_tag", "perfect_square_ai_resolution",
      "unrealistic_aperture", "missing_datetime_original">>

Hundredth == [n \in 0..100 |-> Lit(n, 100)]

\* HashService.compute_hash on a decodable image whose best match has
\* similarity s: matched_idx is set when find_similar_image meets the threshold
HashOutcome(s) ==
    [is_ai |-> FGe(Hundredth[s], SIMILARITY_THRESHOLD), similarity |-> Hundredth[s]]

HashOutcomes(grid) == {HashOutcome(s) : s \in grid}

\* has_c2pa with c2pa_info, and ai_tool_signatures, as MetadataService.analyze
\* may report them
C2paCases ==
    {<<FALSE, NoneVal>>, <<TRUE, NoneVal>>,
     <<TRUE, [ai_related_assertions |-> <<"c2pa.ai_generated">>]>>}

SignatureCases == {<< >>, <<"midjourney">>}

\* MetadataService.analyze as analyze_image reads it into MetadataResult
MetadataOutcomes(grid, counts) ==
    {[has_c2pa |-> c[1], c2pa_info |-> c[2], ai_tool_signatures |-> sig,
      exif_authenticity_score |-> Hundredth[e],
      exif_inconsistencies |-> SubSeq(InconsistencyTags, 1, n)] :
        c \in C2paCases,
        sig \in SignatureCases,
        e \in grid,
        n \in counts}

\* the numbers of EXIF inconsistencies a MetadataResult is given
InconsistencyCounts == 0..MinInt(MaxInconsistencies, Len(InconsistencyTags))

DEFAULT_MODEL == "umm-maybe/AI-image-detector"

\* DetectionService.detect: the dict of _parse_results, its confidence rounded
\* to four decimals, or the dict with "error"
DetectionError == [model_name |-> DEFAULT_MODEL, is_ai_generated |-> FALSE,
                   confidence |-> ZERO, error |-> TRUE]

DetectionOutcomes(grid) ==
    {DetectionError} \cup
    {[model_name |-> DEFAULT_MODEL, is_ai_generated |-> b,
      confidence |-> PyRound(Hundredth[k], 4), error |-> FALSE] :
        b \in BOOLEAN, k \in grid}

\* a DetectionResult built from every dict detect() returns
DetectionOfAny(detection_data) ==
    [model_name |-> detection_data.model_name,
     is_ai_generated |-> detection_data.is_ai_generated,
     confidence |-> detection_data.confidence]

\* analyze_image keeps the DetectionResult only of a dict without "error"
DetectionOf(detection_data) ==
    IF ~detection_data.error
    THEN [model_name |-> detection_data.model_name,
          is_ai_generated |-> detection_data.is_ai_generated,
          confidence |-> detection_data.confidence]
    ELSE NoneVal

(***************************************************************************)
(* PipelineService._compute_verdict, one operator per block of the body.   *)
(* sc is the scores dict, svc the instance (self).                         *)
(***************************************************************************)
InitScores == [ai |-> ZERO, real |-> ZERO]

\* 1. hash similarity
HashUncertain(svc, sc, uncertainty) ==
    [ai   |-> FAdd(sc.ai, FMul(FMul(svc.HASH_WEIGHT, HALF), FSub(ONE, uncertainty))),
     real |-> FAdd(sc.real, FMul(FMul(svc.HASH_WEIGHT, HALF), uncertainty))]

HashScores(svc, sc, hr) ==
    IF FGe(hr.similarity, SIM_HIGH)
    THEN [sc EXCEPT !.ai =
             FAdd(@, FMul(svc.HASH_WEIGHT,
                          FMin(FAdd(FDiv(FSub(hr.similarity, SIM_HIGH), SIM_SPAN), HALF),
                               ONE)))]
    ELSE IF FGe(hr.similarity, SIM_MID)
    THEN HashUncertain(svc, sc, FDiv(FSub(SIM_HIGH, hr.similarity), SIM_SPAN))
    ELSE [sc EXCEPT !.real = FAdd(@, FMul(svc.HASH_WEIGHT, HALF))]

HashReasons(hr) ==
    IF FGe(hr.similarity, SIM_HIGH)
    THEN <<[kind |-> "hash_high", matched |-> hr.is_ai, pct |-> FmtPct1(hr.similarity)]>>
    ELSE IF FGe(hr.similarity, SIM_MID)
    THEN <<[kind |-> "hash_uncertain", pct |-> FmtPct1(hr.similarity)]>>
    ELSE <<[kind |-> "hash_low", pct |-> FmtPct1(hr.similarity)]>>

\* 2-1. AI tool signatures
SignatureScores(svc, sc, mr) ==
    IF mr.ai_tool_signatures # << >>
    THEN [sc EXCEPT !.ai = FAdd(@, FMul(svc.METADATA_WEIGHT, SIGNATURE_FACTOR))]
    ELSE sc

SignatureReasons(mr) ==
    IF mr.ai_tool_signatures # << >>
    THEN <<[kind |-> "signatures", tools |-> mr.ai_tool_signatures]>>
    ELSE << >>

\* 2-2. C2PA
C2paAiRelated(mr) ==
    (IF mr.c2pa_info = NoneVal THEN [ai_related_assertions |-> << >>]
     ELSE mr.c2pa_info).ai_related_assertions # << >>

C2paScores(svc, sc, mr) ==
    IF mr.has_c2pa
    THEN IF C2paAiRelated(mr)
         THEN [sc EXCEPT !.ai = FAdd(@, FMul(svc.METADATA_WEIGHT, C2PA_AI_FACTOR))]
         ELSE [sc EXCEPT !.real = FAdd(@, FMul(svc.METADATA_WEIGHT, C2PA_REAL_FACTOR))]
    ELSE sc

C2paReasons(mr) ==
    IF mr.has_c2pa
    THEN IF C2paAiRelated(mr) THEN <<[kind |-> "c2pa_ai"]>> ELSE <<[kind |-> "c2pa_clean"]>>
    ELSE << >>

\* 2-3. EXIF authenticity score
\* ExifScores with the score 0.7 left to the middle branch
ExifScoresStrict(svc, sc, mr) ==
    IF FGt(mr.exif_authenticity_score, EXIF_HIGH)
    THEN [sc EXCEPT !.real =
             FAdd(@, FMul(FMul(svc.METADATA_WEIGHT, EXIF_HIGH_FACTOR),
                          mr.exif_authenticity_score))]
    ELSE IF FGe(mr.exif_authenticity_score, EXIF_MID)
    THEN [sc EXCEPT !.real =
             FAdd(@, FMul(FMul(svc.METADATA_WEIGHT, EXIF_MID_FACTOR),
                          mr.exif_authenticity_score))]
    ELSE [sc EXCEPT !.ai = FAdd(@, FMul(svc.METADATA_WEIGHT, EXIF_LOW_FACTOR))]

ExifScores(svc, sc, mr) ==
    IF FGe(mr.exif_authenticity_score, EXIF_HIGH)
    THEN [sc EXCEPT !.real =
             FAdd(@, FMul(FMul(svc.METADATA_WEIGHT, EXIF_HIGH_FACTOR),
                          mr.exif_authenticity_score))]
    ELSE IF FGe(mr.exif_authenticity_score, EXIF_MID)
    THEN [sc EXCEPT !.real =
             FAdd(@, FMul(FMul(svc.METADATA_WEIGHT, EXIF_MID_FACTOR),
                          mr.exif_authenticity_score))]
    ELSE [sc EXCEPT !.ai = FAdd(@, FMul(svc.METADATA_WEIGHT, EXIF_LOW_FACTOR))]

\* ExifReasons with no entry for a score below 0.3
ExifReasonsOptional(mr) ==
    IF FGe(mr.exif_authenticity_score, EXIF_HIGH)
    THEN <<[kind |-> "exif_high", score |-> Fmt2f(mr.exif_authenticity_score)]>>
    ELSE IF FGe(mr.exif_authenticity_score, EXIF_MID)
    THEN <<[kind |-> "exif_present", score |-> Fmt2f(mr.exif_authenticity_score)]>>
    ELSE << >>

ExifReasons(mr) ==
    IF FGe(mr.exif_authenticity_score, EXIF_HIGH)
    THEN <<[kind |-> "exif_high", score |-> Fmt2f(mr.exif_authenticity_score)]>>
    ELSE IF FGe(mr.exif_authenticity_score, EXIF_MID)
    THEN <<[kind |-> "exif_present", score |-> Fmt2f(mr.exif_authenticity_score)]>>
    ELSE <<[kind |-> "exif_low", score |-> Fmt2f(mr.exif_authenticity_score)]>>

\* 2-4. EXIF inconsistencies
inconsistency_msgs(inc) ==
    CASE inc = "editing_software_without_camera" -> "msg_editing_software_only"
      [] inc = "perfect_square_ai_resolution"    -> "msg_ai_resolution"
      [] inc = "unrealistic_aperture"            -> "msg_unrealistic_values"
      [] inc = "missing_datetime_original"       -> "msg_original_time_missing"
      [] OTHER                                   -> inc

InconsistencyWeight(mr) ==
    FMin(FMul(FromInt(Len(mr.exif_inconsistencies)), INCONSISTENCY_STEP),
         INCONSISTENCY_CAP)

InconsistencyScores(svc, sc, mr) ==
    IF mr.exif_inconsistencies # << >>
    THEN [sc EXCEPT !.ai = FAdd(@, FMul(svc.METADATA_WEIGHT, InconsistencyWeight(mr)))]
    ELSE sc

InconsistencyReasons(mr) ==
    IF mr.exif_inconsistencies # << >>
    THEN <<[kind |-> "inconsistencies",
            detected |-> [i \in 1..Len(mr.exif_inconsistencies) |->
                             inconsistency_msgs(mr.exif_inconsistencies[i])]]>>
    ELSE << >>

\* 3. AI detection
\* DetectionScores with a result that says "not AI" counted on the ai side too
DetectionScoresOneSided(svc, sc, dr) ==
    IF dr # NoneVal
    THEN [sc EXCEPT !.ai = FAdd(@, FMul(svc.AI_DETECTION_WEIGHT, dr.confidence))]
    ELSE sc

DetectionScores(svc, sc, dr) ==
    IF dr # NoneVal
    THEN IF dr.is_ai_generated
         THEN [sc EXCEPT !.ai = FAdd(@, FMul(svc.AI_DETECTION_WEIGHT, dr.confidence))]
         ELSE [sc EXCEPT !.real = FAdd(@, FMul(svc.AI_DETECTION_WEIGHT, dr.confidence))]
    ELSE sc

DetectionReasons(dr) ==
    IF dr # NoneVal
    THEN IF dr.is_ai_generated
         THEN <<[kind |-> "detection_ai", model |-> dr.model_name,
                 pct |-> FmtPct1(dr.confidence)]>>
         ELSE <<[kind |-> "detection_real", model |-> dr.model_name,
                 pct |-> FmtPct1(dr.confidence)]>>
    ELSE <<[kind |-> "detection_skipped"]>>

\* the final block: verdict, confidence (before rounding) and ai_ratio
AiRatio(sc, total_score) ==
    IF FGt(total_score, ZERO) THEN FDiv(sc.ai, total_score) ELSE HALF

\* VerdictOfRatio with exclusive boundaries
VerdictOfRatioStrict(svc, ai_ratio) ==
    IF FGt(ai_ratio, svc.CONFIDENCE_THRESHOLD)
    THEN [verdict |-> "ai_generated", confidence |-> ai_ratio, ai_ratio |-> ai_ratio]
    ELSE IF FLt(ai_ratio, FSub(ONE, svc.CONFIDENCE_THRESHOLD))
    THEN [verdict |-> "likely_real", confidence |-> FSub(ONE, ai_ratio),
          ai_ratio |-> ai_ratio]
    ELSE [verdict |-> "uncertain",
          confidence |-> FAdd(HALF, FAbs(FSub(ai_ratio, HALF))),
          ai_ratio |-> ai_ratio]

VerdictOfRatio(svc, ai_ratio) ==
    IF FGe(ai_ratio, svc.CONFIDENCE_THRESHOLD)
    THEN [verdict |-> "ai_generated", confidence |-> ai_ratio, ai_ratio |-> ai_ratio]
    ELSE IF FLe(ai_ratio, FSub(ONE, svc.CONFIDENCE_THRESHOLD))
    THEN [verdict |-> "likely_real", confidence |-> FSub(ONE, ai_ratio),
          ai_ratio |-> ai_ratio]
    ELSE [verdict |-> "uncertain",
          confidence |-> FAdd(HALF, FAbs(FSub(ai_ratio, HALF))),
          ai_ratio |-> ai_ratio]

VerdictOfTotal(svc, sc, total_score) ==
    IF FIsZero(total_score)
    THEN [verdict |-> "uncertain", confidence |-> HALF, ai_ratio |-> NoneVal]
    ELSE VerdictOfRatio(svc, AiRatio(sc, total_score))

FinalVerdict(svc, sc) == VerdictOfTotal(svc, sc, FAdd(sc.ai, sc.real))

\* " | ".join(reasons): the entries with the delimiter between them
RECURSIVE Join(_)
Join(rs) ==
    IF Len(rs) <= 1 THEN rs ELSE <<Head(rs), " | ">> \o Join(Tail(rs))

ReturnConfidence(confidence) == PyRound(confidence, 4)

\* the locals of the final block and the tuple of the return statement
Returned(fv, rs) ==
    [verdict |-> fv.verdict, confidence |-> fv.confidence, ai_ratio |-> fv.ai_ratio,
     returned |-> <<fv.verdict, ReturnConfidence(fv.confidence), Join(rs)>>]

\* _compute_verdict as a function of its arguments: the blocks in body order
CvScores(svc, hr, mr, dr) ==
    DetectionScores(svc,
        InconsistencyScores(svc,
            ExifScores(svc,
                C2paScores(svc,
                    SignatureScores(svc, HashScores(svc, InitScores, hr), mr),
                    mr),
                mr),
            mr),
        dr)

CvReasons(hr, mr, dr) ==
    HashReasons(hr) \o SignatureReasons(mr) \o C2paReasons(mr) \o ExifReasons(mr)
        \o InconsistencyReasons(mr) \o DetectionReasons(dr)

compute_verdict(svc, hr, mr, dr) ==
    Returned(FinalVerdict(svc, CvScores(svc, hr, mr, dr)), CvReasons(hr, mr, dr)).returned

\* an instance whose three weights were set to k times the defaults
ScaledService(k) ==
    [InitService EXCEPT !.AI_DETECTION_WEIGHT = FMul(FromInt(k), @),
                        !.METADATA_WEIGHT     = FMul(FromInt(k), @),
                        !.HASH_WEIGHT         = FMul(FromInt(k), @)]

Calls == {1, 2}

Instances == {1, 2}

\* where the locals of an invocation of _compute_verdict live: its own frame
\* one frame for every invocation
FrameShared(c) == 1

Frame(c) == c

VARIABLES
    service,           \* instance -> the attributes __init__ set
    pc,                \* call -> position in analyze_image / _compute_verdict
    self,              \* call -> the instance it runs on
    image,             \* call -> the image_bytes argument
    hash_result,       \* call -> HashResult
    metadata_result,   \* call -> MetadataResult
    detection_result,  \* call -> DetectionResult or None
    layers_executed,   \* call -> list of stage names
    scores,            \* frame -> scores dict of _compute_verdict
    reasons,           \* frame -> reasons list of _compute_verdict
    final,             \* frame -> verdict, confidence, ai_ratio of the last block
    result,            \* call -> the AnalysisResult returned, or the exception
    ran,               \* call -> the provider and fusion invocations, in order
    http               \* the last request the router handled and its response

vars == <<http, service, pc, self, image, hash_result, metadata_result, detection_result,
          layers_executed, scores, reasons, final, result, ran>>

inputs == <<hash_result, metadata_result, detection_result>>

locals == <<scores, reasons, final>>

Init ==
    /\ service = [i \in Instances |-> InitService]
    /\ pc = [c \in Calls |-> "idle"]
    /\ self = [c \in Calls |-> 1]
    /\ image = [c \in Calls |-> NoneVal]
    /\ hash_result = [c \in Calls |-> NoneVal]
    /\ metadata_result = [c \in Calls |-> NoneVal]
    /\ detection_result = [c \in Calls |-> NoneVal]
    /\ layers_executed = [c \in Calls |-> << >>]
    /\ scores = [c \in Calls |-> InitScores]
    /\ reasons = [c \in Calls |-> << >>]
    /\ final = [c \in Calls |-> NoneVal]
    /\ result = [c \in Calls |-> NoneVal]
    /\ ran = [c \in Calls |-> << >>]
    /\ http = [request |-> NoneVal, response |-> NoneVal]

(***************************************************************************)
(* PipelineService.analyze_image                                           *)
(***************************************************************************)
\* a caller invokes analyze_image(image_bytes, filename) on instance i
Invoke(c, i, decodable) ==
    /\ pc[c] = "idle"
    /\ pc' = [pc EXCEPT ![c] = "layer1"]
    /\ self' = [self EXCEPT ![c] = i]
    /\ image' = [image EXCEPT ![c] = [decodable |-> decodable]]
    /\ layers_executed' = [layers_executed EXCEPT ![c] = << >>]
    /\ UNCHANGED <<http, service, inputs, locals, result, ran>>

AfterLayer1 == "layer2"

\* fusion right after the metadata layer
AfterLayer2Skip == "verdict"

AfterLayer2 == "layer3"

AfterLayer3 == "verdict"

\* Layer 1: compute_hash raises when PIL cannot open the bytes
HashCheck(c, outcomes) ==
    /\ pc[c] = "layer1"
    /\ ran' = [ran EXCEPT ![c] = Append(@, "hash_check")]
    /\ IF image[c].decodable
       THEN \E hash_data \in outcomes :
               /\ hash_result' = [hash_result EXCEPT ![c] = hash_data]
               /\ layers_executed' = [layers_executed EXCEPT ![c] = Append(@, "hash_check")]
               /\ pc' = [pc EXCEPT ![c] = AfterLayer1]
               /\ UNCHANGED result
       ELSE /\ pc' = [pc EXCEPT ![c] = "raised"]
            /\ result' = [result EXCEPT ![c] = [exception |-> "UnidentifiedImageError"]]
            /\ UNCHANGED <<hash_result, layers_executed>>
    /\ UNCHANGED <<http, service, self, image, metadata_result, detection_result, locals>>

\* Layer 2
MetadataAnalysis(c, outcomes) ==
    /\ pc[c] = "layer2"
    /\ \E metadata_data \in outcomes :
          metadata_result' = [metadata_result EXCEPT ![c] = metadata_data]
    /\ ran' = [ran EXCEPT ![c] = Append(@, "metadata_analysis")]
    /\ layers_executed' = [layers_executed EXCEPT ![c] = Append(@, "metadata_analysis")]
    /\ pc' = [pc EXCEPT ![c] = AfterLayer2]
    /\ UNCHANGED <<http, service, self, image, hash_result, detection_result, locals, result>>

\* Layer 3: a dict with "error" leaves detection_result None
AIDetection(c, outcomes) ==
    /\ pc[c] = "layer3"
    /\ \E detection_data \in outcomes :
          detection_result' = [detection_result EXCEPT ![c] = DetectionOf(detection_data)]
    /\ ran' = [ran EXCEPT ![c] = Append(@, "ai_detection")]
    /\ layers_executed' = [layers_executed EXCEPT ![c] = Append(@, "ai_detection")]
    /\ pc' = [pc EXCEPT ![c] = AfterLayer3]
    /\ UNCHANGED <<http, service, self, image, hash_result, metadata_result, locals, result>>

\* the call of _compute_verdict: fresh scores and reasons
ComputeVerdict(c) ==
    /\ pc[c] = "verdict"
    /\ scores' = [scores EXCEPT ![Frame(c)] = InitScores]
    /\ reasons' = [reasons EXCEPT ![Frame(c)] = << >>]
    /\ ran' = [ran EXCEPT ![c] = Append(@, "compute_verdict")]
    /\ pc' = [pc EXCEPT ![c] = "cv_hash"]
    /\ UNCHANGED <<http, service, self, image, inputs, layers_executed, final, result>>

\* one block of _compute_verdict: the scores and the reasons it appends
CvBlock(c, at, new_scores, new_reasons, to) ==
    /\ pc[c] = at
    /\ scores' = [scores EXCEPT ![Frame(c)] = new_scores]
    /\ reasons' = [reasons EXCEPT ![Frame(c)] = @ \o new_reasons]
    /\ pc' = [pc EXCEPT ![c] = to]
    /\ UNCHANGED <<http, service, self, image, inputs, layers_executed, final, result, ran>>

CvHash(c) ==
    CvBlock(c, "cv_hash",
            HashScores(service[self[c]], scores[Frame(c)], hash_result[c]),
            HashReasons(hash_result[c]), "cv_signatures")

CvSignatures(c) ==
    CvBlock(c, "cv_signatures",
            SignatureScores(service[self[c]], scores[Frame(c)], metadata_result[c]),
            SignatureReasons(metadata_result[c]), "cv_c2pa")

CvC2pa(c) ==
    CvBlock(c, "cv_c2pa",
            C2paScores(service[self[c]], scores[Frame(c)], metadata_result[c]),
            C2paReasons(metadata_result[c]), "cv_exif")

CvExif(c) ==
    CvBlock(c, "cv_exif",
            ExifScores(service[self[c]], scores[Frame(c)], metadata_result[c]),
            ExifReasons(metadata_result[c]), "cv_inconsistencies")

CvInconsistencies(c) ==
    CvBlock(c, "cv_inconsistencies",
            InconsistencyScores(service[self[c]], scores[Frame(c)], metadata_result[c]),
            InconsistencyReasons(metadata_result[c]), "cv_detection")

CvDetection(c) ==
    CvBlock(c, "cv_detection",
            DetectionScores(service[self[c]], scores[Frame(c)], detection_result[c]),
            DetectionReasons(detection_result[c]), "cv_final")

\* the final block: verdict, confidence, and the values returned
CvFinal(c) ==
    /\ pc[c] = "cv_final"
    /\ final' = [final EXCEPT ![Frame(c)] =
                    Returned(FinalVerdict(service[self[c]], scores[Frame(c)]),
                             reasons[Frame(c)])]
    /\ pc' = [pc EXCEPT ![c] = "assemble"]
    /\ UNCHANGED <<http, service, self, image, inputs, layers_executed, scores, reasons,
                   result, ran>>

\* the AnalysisResult built from what _compute_verdict returned
Assemble(c) ==
    /\ pc[c] = "assemble"
    /\ result' = [result EXCEPT ![c] =
                     [hash_result |-> hash_result[c],
                      metadata_result |-> metadata_result[c],
                      detection_result |-> detection_result[c],
                      final_verdict |-> final[Frame(c)].returned[1],
                      confidence_score |-> final[Frame(c)].returned[2],
                      reasoning |-> final[Frame(c)].returned[3],
                      layers_executed |-> layers_executed[c]]]
    /\ pc' = [pc EXCEPT ![c] = "done"]
    /\ UNCHANGED <<http, service, self, image, inputs, layers_executed, locals, ran>>

(***************************************************************************)
(* routes.py: the two endpoints.  A handler runs from the request to the   *)
(* response in one step; what the pipeline would return is the set of      *)
(* results of analyze_image over the provider outcomes.                    *)
(***************************************************************************)
\* a content type is None, or a string held as its segments
ImagePrefix == <<"image", "/">>

StartsWith(str, prefix) ==
    Len(str) >= Len(prefix) /\ SubSeq(str, 1, Len(prefix)) = prefix

\* file.content_type and file.content_type.startswith("image/")
IsImage(content_type) ==
    /\ content_type # NoneVal
    /\ content_type.str # << >>
    /\ StartsWith(content_type.str, ImagePrefix)

\* a str value, held as its segments
Str(segments) == [str |-> segments]

ContentTypes == {NoneVal, Str(<<"image", "/", "png">>), Str(<<"text", "/", "plain">>)}

\* the provider outcomes over the small grids
SmallHashOutcomes == HashOutcomes(SimGridSmall)

SmallMetadataOutcomes == MetadataOutcomes(ExifGridSmall, InconsistencyCounts)

SmallDetectionOutcomes == DetectionOutcomes(ConfGridSmall)

\* the parameters of analyze_image after self, and the keywords a handler passes
AnalyzeImageParams == {"image_bytes", "filename"}

RouteKeywords == {"image_bytes", "filename", "skip_ai_detection"}

\* what analyze_image returns or raises on instance svc
AnalyzeImageOutcomes(svc, filename, decodable) ==
    IF ~decodable THEN {[exception |-> "UnidentifiedImageError"]}
    ELSE {[filename |-> filename,
           hash_result |-> hr, metadata_result |-> mr, detection_result |-> DetectionOf(dd),
           final_verdict |-> compute_verdict(svc, hr, mr, DetectionOf(dd))[1],
           confidence_score |-> compute_verdict(svc, hr, mr, DetectionOf(dd))[2],
           reasoning |-> compute_verdict(svc, hr, mr, DetectionOf(dd))[3],
           layers_executed |-> <<"hash_check", "metadata_analysis", "ai_detection">>] :
              hr \in SmallHashOutcomes,
              mr \in SmallMetadataOutcomes,
              dd \in SmallDetectionOutcomes}

\* a call with keyword arguments: Python binds them to the parameters before
\* the body runs and raises TypeError for a keyword that names no parameter
\* or a parameter left without a value
CallAnalyzeImage(svc, keywords, filename, decodable) ==
    IF keywords \subseteq AnalyzeImageParams /\ AnalyzeImageParams \subseteq keywords
    THEN AnalyzeImageOutcomes(svc, filename, decodable)
    ELSE {[exception |-> "TypeError"]}

\* a handler that takes whatever the call gave for a result
RaisedNever(r) == FALSE

Raised(r) == "exception" \in DOMAIN r

\* analyze_single_image
SingleResponses(svc, file) ==
    IF ~IsImage(file.content_type) THEN {[status |-> 400]}
    ELSE {IF Raised(r) THEN [status |-> 500, detail |-> r.exception]
          ELSE [status |-> 200, body |-> r] :
             r \in CallAnalyzeImage(svc, RouteKeywords, file.filename, file.decodable)}

\* one pass of the loop body of analyze_batch_images: the entries it appends
\* for the file, none for a content type that is no image
BatchItem(svc, file) ==
    IF IsImage(file.content_type)
    THEN {<<IF Raised(r)
            THEN [filename |-> file.filename, error |-> r.exception, status |-> "failed"]
            ELSE r>> :
             r \in CallAnalyzeImage(svc, RouteKeywords, file.filename, file.decodable)}
    ELSE {<< >>}

\* the entries the loop appends for the files, in the order of the files; the
\* passes are independent of each other, so the list is split in halves
RECURSIVE BatchEntries(_, _)
BatchEntries(svc, files) ==
    IF files = << >> THEN {<< >>}
    ELSE IF Len(files) = 1 THEN BatchItem(svc, files[1])
    ELSE {first \o rest :
             first \in BatchEntries(svc, SubSeq(files, 1, Len(files) \div 2)),
             rest \in BatchEntries(svc, SubSeq(files, Len(files) \div 2 + 1, Len(files)))}

\* the loop of analyze_batch_images: the lists results can be after the files
BatchLoop(svc, files, results) ==
    {results \o entries : entries \in BatchEntries(svc, files)}

BatchCap == 50

\* isinstance(r, dict): only the error entries are dicts, the results are
\* AnalysisResult objects
IsDict(r) == "error" \in DOMAIN r

\* sum(1 for r in results if isinstance(r, dict) and r.get("final_verdict") == verdict)
CountVerdict(results, verdict) ==
    Cardinality({k \in 1..Len(results) :
                    /\ IsDict(results[k])
                    /\ "final_verdict" \in DOMAIN results[k]
                    /\ results[k].final_verdict = verdict})

BatchBody(results) ==
    [total_processed |-> Len(results),
     ai_generated_count |-> CountVerdict(results, "ai_generated"),
     likely_real_count |-> CountVerdict(results, "likely_real"),
     uncertain_count |-> Len(results) - CountVerdict(results, "ai_generated")
                             - CountVerdict(results, "likely_real"),
     results |-> results]

\* a loop without the try/except: the first exception fails the request
BatchResponsesUnguarded(svc, files) ==
    IF Len(files) > BatchCap THEN {[status |-> 400]}
    ELSE {IF \E k \in 1..Len(results) : IsDict(results[k])
          THEN [status |-> 500]
          ELSE [status |-> 200, body |-> BatchBody(results)] :
             results \in BatchLoop(svc, files, << >>)}

\* the cap rejecting a batch of BatchCap files too
BatchResponsesInclusive(svc, files) ==
    IF Len(files) >= BatchCap THEN {[status |-> 400]}
    ELSE {[status |-> 200, body |-> BatchBody(results)] :
             results \in BatchLoop(svc, files, << >>)}

BatchResponses(svc, files) ==
    IF Len(files) > BatchCap THEN {[status |-> 400]}
    ELSE {[status |-> 200, body |-> BatchBody(results)] :
             results \in BatchLoop(svc, files, << >>)}

\* the provider and fusion invocations a call of analyze_image makes before
\* it returns or raises: none when binding the arguments fails
AnalyzeImageRan(decodable) ==
    IF ~decodable THEN <<"hash_check">>
    ELSE <<"hash_check", "metadata_analysis", "ai_detection", "compute_verdict">>

CallAnalyzeImageRan(keywords, decodable) ==
    IF keywords \subseteq AnalyzeImageParams /\ AnalyzeImageParams \subseteq keywords
    THEN AnalyzeImageRan(decodable)
    ELSE << >>

\* the invocations of one request of analyze_single_image
SingleRan(file) ==
    IF ~IsImage(file.content_type) THEN << >>
    ELSE CallAnalyzeImageRan(RouteKeywords, file.decodable)

\* the invocations of the loop of analyze_batch_images
RECURSIVE BatchLoopRan(_)
BatchLoopRan(files) ==
    IF files = << >> THEN << >>
    ELSE IF Len(files) = 1 THEN SingleRan(files[1])
    ELSE BatchLoopRan(SubSeq(files, 1, Len(files) \div 2))
            \o BatchLoopRan(SubSeq(files, Len(files) \div 2 + 1, Len(files)))

BatchRan(files) ==
    IF Len(files) > BatchCap THEN << >> ELSE BatchLoopRan(files)

MaxBatch == 3

\* the uploads of a request: the i-th is named i
Uploads(n) ==
    {[i \in 1..n |-> [decodable |-> f[i][2], content_type |-> f[i][1], filename |-> i]] :
        f \in [1..n -> ContentTypes \X BOOLEAN]}

AnalyzeSingle(file, skip_ai_detection) ==
    /\ \E response \in SingleResponses(service[1], file) :
          http' = [request |-> [endpoint |-> "/analyze", files |-> <<file>>,
                                skip_ai_detection |-> skip_ai_detection],
                   response |-> response]
    /\ ran' = [ran EXCEPT ![1] = SingleRan(file)]
    /\ UNCHANGED <<service, pc, self, image, inputs, layers_executed, locals, result>>

AnalyzeBatch(files, skip_ai_detection) ==
    /\ \E response \in BatchResponses(service[1], files) :
          http' = [request |-> [endpoint |-> "/analyze/batch", files |-> files,
                                skip_ai_detection |-> skip_ai_detection],
                   response |-> response]
    /\ ran' = [ran EXCEPT ![1] = BatchRan(files)]
    /\ UNCHANGED <<service, pc, self, image, inputs, layers_executed, locals, result>>

(***************************************************************************)
(* Spec: one caller runs analyze_image on the instance routes.py builds.   *)
(***************************************************************************)
SpecHashOutcomes == HashOutcomes(SimGrid)

SpecMetadataOutcomes == MetadataOutcomes(ExifGrid, InconsistencyCounts)

SpecDetectionOutcomes == DetectionOutcomes(ConfGrid)

Next ==
    \/ \E d \in BOOLEAN : Invoke(1, 1, d)
    \/ HashCheck(1, SpecHashOutcomes)
    \/ MetadataAnalysis(1, SpecMetadataOutcomes)
    \/ AIDetection(1, SpecDetectionOutcomes)
    \/ ComputeVerdict(1)
    \/ CvHash(1)
    \/ CvSignatures(1)
    \/ CvC2pa(1)
    \/ CvExif(1)
    \/ CvInconsistencies(1)
    \/ CvDetection(1)
    \/ CvFinal(1)
    \/ Assemble(1)

Spec == Init /\ [][Next]_vars

(***************************************************************************)
(* SpecApi: clients post to the two endpoints.                             *)
(***************************************************************************)
SingleUploads == Uploads(1)

\* the sizes of the batches posted: the small ones, the cap and one above it
BatchSizes == (0..MaxBatch) \cup {BatchCap, BatchCap + 1}

NextApi ==
    \/ \E files \in SingleUploads, skip \in BOOLEAN : AnalyzeSingle(files[1], skip)
    \/ \E n \in BatchSizes, skip \in BOOLEAN :
          \E files \in (IF n <= MaxBatch THEN Uploads(n)
                        ELSE {[i \in 1..n |-> [decodable |-> TRUE,
                                               content_type |-> Str(<<"image", "/", "png">>),
                                               filename |-> i]]}) :
             AnalyzeBatch(files, skip)

SpecApi == Init /\ [][NextApi]_vars

(***************************************************************************)
(* SpecConc: two callers run analyze_image on the one instance, their      *)
(* steps interleaved.                                                      *)
(***************************************************************************)
SimGridConc == {90}

ConfGridConc == {70}

ExifGridConc == {50}

ConcHashOutcomes == HashOutcomes(SimGridConc)

ConcMetadataOutcomes == MetadataOutcomes(ExifGridConc, {0})

ConcDetectionOutcomes == DetectionOutcomes(ConfGridConc)

Step(c, hashes, metadatas, detections) ==
    \/ HashCheck(c, hashes)
    \/ MetadataAnalysis(c, metadatas)
    \/ AIDetection(c, detections)
    \/ ComputeVerdict(c)
    \/ CvHash(c)
    \/ CvSignatures(c)
    \/ CvC2pa(c)
    \/ CvExif(c)
    \/ CvInconsistencies(c)
    \/ CvDetection(c)
    \/ CvFinal(c)
    \/ Assemble(c)

NextConc ==
    \E c \in Calls :
        \/ Invoke(c, 1, TRUE)
        \/ Step(c, ConcHashOutcomes, ConcMetadataOutcomes, ConcDetectionOutcomes)

SpecConc == Init /\ [][NextConc]_vars

(***************************************************************************)
(* SpecConfig: instance 2 has its weights set to a multiple of the         *)
(* defaults; an image is analysed on instance 1 and then, with the same    *)
(* provider outcomes, on instance 2.                                       *)
(***************************************************************************)
Configure(i, k) ==
    /\ \A c \in Calls : pc[c] = "idle"
    /\ service[i] = InitService
    /\ service' = [service EXCEPT ![i] = ScaledService(k)]
    /\ UNCHANGED <<http, pc, self, image, inputs, layers_executed, locals, result, ran>>

\* the detect() dicts that analyze_image reads into the DetectionResult dr
SameDetection(dr, detections) == {dd \in detections : DetectionOf(dd) = dr}

NextConfig ==
    \/ \E k \in 0..MaxScale : Configure(2, k)
    \/ Invoke(1, 1, TRUE)
    \/ HashCheck(1, SmallHashOutcomes)
    \/ MetadataAnalysis(1, SmallMetadataOutcomes)
    \/ AIDetection(1, SmallDetectionOutcomes)
    \/ pc[1] = "done" /\ Invoke(2, 2, TRUE)
    \/ HashCheck(2, {hash_result[1]})
    \/ MetadataAnalysis(2, {metadata_result[1]})
    \/ AIDetection(2, SameDetection(detection_result[1], SmallDetectionOutcomes))
    \/ \E c \in Calls :
          \/ ComputeVerdict(c)
          \/ CvHash(c)
          \/ CvSignatures(c)
          \/ CvC2pa(c)
          \/ CvExif(c)
          \/ CvInconsistencies(c)
          \/ CvDetection(c)
          \/ CvFinal(c)
          \/ Assemble(c)

SpecConfig == Init /\ [][NextConfig]_vars
(***************************************************************************)
(* SpecEdge: one analysis on instance 1, with the default weights or with  *)
(* the hash weight alone, over signals between the grid points of Spec.    *)
(***************************************************************************)
\* an instance whose metadata and detection weights are zero
HashOnlyService ==
    [InitService EXCEPT !.AI_DETECTION_WEIGHT = ZERO,
                        !.METADATA_WEIGHT     = ZERO]

ConfigureHashOnly(i) ==
    /\ \A c \in Calls : pc[c] = "idle"
    /\ service[i] = InitService
    /\ service' = [service EXCEPT ![i] = HashOnlyService]
    /\ UNCHANGED <<http, pc, self, image, inputs, layers_executed, locals, result, ran>>

SimGridEdge == {0, 77, 79}

ExifGridEdge == {0, 50}

ConfGridEdge == {80}

InconsistencyCountsEdge == {0}

EdgeHashOutcomes == HashOutcomes(SimGridEdge)

EdgeMetadataOutcomes == MetadataOutcomes(ExifGridEdge, InconsistencyCountsEdge)

EdgeDetectionOutcomes == DetectionOutcomes(ConfGridEdge)

NextEdge ==
    \/ ConfigureHashOnly(1)
    \/ Invoke(1, 1, TRUE)
    \/ Step(1, EdgeHashOutcomes, EdgeMetadataOutcomes, EdgeDetectionOutcomes)

SpecEdge == Init /\ [][NextEdge]_vars
(***************************************************************************)
(* The claims                                                              *)
(***************************************************************************)
\* the decimal values the claims name
D_1_0 == FromInt(1)

D_0_5 == Lit(5, 10)

D_0_7 == Lit(7, 10)

D_0_3 == Lit(3, 10)

D_0_85 == Lit(85, 100)

D_0_70 == Lit(70, 100)

D_0_15 == Lit(15, 100)

D_0_35 == Lit(35, 100)

D_0_25 == Lit(25, 100)

\* call c has just returned from _compute_verdict
Returning(c) == pc[c] = "assemble"

\* the step of call 1 from one block of _compute_verdict to the next
BlockStep(at, to) == pc[1] = at /\ pc'[1] = to

C1_RecordFields == {"final_verdict", "confidence_score", "reasoning"}

\* C1: a POST /analyze request whose content type starts with "image/" and
\* whose bytes decode as an image, with the skip flag set or unset, is answered
\* with a single AnalysisRecord (verdict, confidence, reasoning) and not with
\* an error response.
C1_SingleImageReturnsRecord ==
    (/\ http.request # NoneVal
     /\ http.request.endpoint = "/analyze"
     /\ IsImage(http.request.files[1].content_type)
     /\ http.request.files[1].decodable)
    => /\ http.response.status = 200
       /\ C1_RecordFields \subseteq DOMAIN http.response.body

\* what the final block resolves from a total and a ratio
C2_Resolution(svc, total, ratio, fv) ==
    /\ FIsZero(total) =>
          /\ fv.verdict = "uncertain"
          /\ fv.confidence = D_0_5
          /\ fv.returned[2] = D_0_5
    /\ (~FIsZero(total) /\ FCmp(ratio, svc.CONFIDENCE_THRESHOLD) >= 0) =>
          /\ fv.verdict = "ai_generated"
          /\ fv.confidence = ratio
    /\ (/\ ~FIsZero(total)
        /\ FCmp(ratio, svc.CONFIDENCE_THRESHOLD) < 0
        /\ FCmp(ratio, FSub(D_1_0, svc.CONFIDENCE_THRESHOLD)) <= 0) =>
          /\ fv.verdict = "likely_real"
          /\ fv.confidence = FSub(D_1_0, ratio)
    /\ (/\ ~FIsZero(total)
        /\ FCmp(ratio, svc.CONFIDENCE_THRESHOLD) < 0
        /\ FCmp(ratio, FSub(D_1_0, svc.CONFIDENCE_THRESHOLD)) > 0) =>
          /\ fv.verdict = "uncertain"
          /\ fv.confidence = FAdd(D_0_5, FAbs(FSub(ratio, D_0_5)))
    /\ (~FIsZero(total) /\ svc.CONFIDENCE_THRESHOLD = D_0_7 /\ ratio = D_0_7) =>
          /\ fv.verdict = "ai_generated"
          /\ fv.returned = <<"ai_generated", D_0_7, fv.returned[3]>>
    /\ (~FIsZero(total) /\ svc.CONFIDENCE_THRESHOLD = D_0_7 /\ ratio = D_0_3) =>
          /\ fv.verdict = "likely_real"
          /\ fv.returned = <<"likely_real", D_0_7, fv.returned[3]>>

C2_TotalOf(c) == FAdd(scores[Frame(c)].ai, scores[Frame(c)].real)

C2_RatioOf(c) ==
    IF FIsZero(C2_TotalOf(c)) THEN NoneVal ELSE FDiv(scores[Frame(c)].ai, C2_TotalOf(c))

\* C2: with total = ai + real and ratio = ai / total, total = 0 gives
\* "uncertain" with confidence 0.5; otherwise ratio >= threshold gives
\* "ai_generated" with confidence ratio, ratio <= 1 - threshold gives
\* "likely_real" with confidence 1 - ratio, and a ratio strictly between gives
\* "uncertain" with confidence 0.5 + |ratio - 0.5|.  Both boundaries are
\* inclusive: with threshold 0.7, ratio 0.7 is "ai_generated" and ratio 0.3 is
\* "likely_real", each returned with confidence 0.7.
C2_VerdictResolution ==
    \A c \in Calls :
        Returning(c) =>
            C2_Resolution(service[self[c]], C2_TotalOf(c), C2_RatioOf(c), final[Frame(c)])

\* a call that resolved a ratio exactly at the threshold
C2_Witness ==
    /\ Returning(1)
    /\ ~FIsZero(C2_TotalOf(1))
    /\ C2_RatioOf(1) = D_0_7
    /\ final[Frame(1)].returned[1] = "ai_generated"
    /\ final[Frame(1)].returned[2] = D_0_7

\* the scores after the hash block, from those before it
C3_Half(w) == FMul(w, D_0_5)

C3_U(s) == FDiv(FSub(D_0_85, s), D_0_15)

C3_Contribution(w, s, before, after) ==
    /\ FCmp(s, D_0_85) >= 0 =>
          /\ after.ai = FAdd(before.ai,
                             FMul(w, FMin(FAdd(FDiv(FSub(s, D_0_85), D_0_15),
                                               D_0_5),
                                          D_1_0)))
          /\ after.real = before.real
    /\ (FCmp(s, D_0_70) >= 0 /\ FCmp(s, D_0_85) < 0) =>
          /\ after.ai = FAdd(before.ai, FMul(C3_Half(w), FSub(D_1_0, C3_U(s))))
          /\ after.real = FAdd(before.real, FMul(C3_Half(w), C3_U(s)))
    /\ FCmp(s, D_0_70) < 0 =>
          /\ after.ai = before.ai
          /\ after.real = FAdd(before.real, C3_Half(w))
    /\ s = D_0_85 =>
          /\ after.ai = FAdd(before.ai, C3_Half(w))
          /\ after.real = before.real
    /\ s = D_0_70 =>
          /\ after.ai = before.ai
          /\ after.real = FAdd(before.real, C3_Half(w))
    /\ s = FZero =>
          /\ after.ai = before.ai
          /\ after.real = FAdd(before.real, C3_Half(w))

\* C3: the hash block changes the scores piecewise on the similarity s.  For
\* s >= 0.85 only ai grows, by HASH_WEIGHT * min((s - 0.85) / 0.15 + 0.5, 1.0);
\* for 0.70 <= s < 0.85 ai grows by HASH_WEIGHT * 0.5 * (1 - u) and real by
\* HASH_WEIGHT * 0.5 * u with u = (0.85 - s) / 0.15; for s < 0.70 only real
\* grows, by HASH_WEIGHT * 0.5.  At s = 0.85 it adds exactly HASH_WEIGHT * 0.5
\* to ai and nothing to real, at s = 0.70 it adds HASH_WEIGHT * 0.5 to real and
\* nothing to ai, at s = 0.0 it adds HASH_WEIGHT * 0.5 to real.
C3_HashContribution ==
    [][BlockStep("cv_hash", "cv_signatures") =>
          C3_Contribution(service[self[1]].HASH_WEIGHT, hash_result[1].similarity,
                          scores[Frame(1)], scores'[Frame(1)])]_vars

\* the scores after the EXIF block, from those before it
C4_Branch(e) ==
    IF FCmp(e, D_0_7) >= 0 THEN 1 ELSE IF FCmp(e, D_0_3) >= 0 THEN 2 ELSE 3

C4_Contribution(w, e, before, after) ==
    /\ C4_Branch(e) = 1 =>
          /\ after.real = FAdd(before.real, FMul(FMul(w, D_0_35), e))
          /\ after.ai = before.ai
    /\ C4_Branch(e) = 2 =>
          /\ after.real = FAdd(before.real, FMul(FMul(w, D_0_15), e))
          /\ after.ai = before.ai
    /\ C4_Branch(e) = 3 =>
          /\ after.ai = FAdd(before.ai, FMul(w, D_0_25))
          /\ after.real = before.real
    /\ e = D_0_7 => C4_Branch(e) = 1
    /\ e = D_0_3 => C4_Branch(e) = 2

\* C4: exactly one of three branches applies to the EXIF score e: e >= 0.7
\* adds METADATA_WEIGHT * 0.35 * e to real; 0.3 <= e < 0.7 adds
\* METADATA_WEIGHT * 0.15 * e to real; e < 0.3 adds METADATA_WEIGHT * 0.25 to
\* ai.  e = 0.7 takes the first branch and e = 0.3 the second.
C4_ExifContribution ==
    [][BlockStep("cv_exif", "cv_inconsistencies") =>
          C4_Contribution(service[self[1]].METADATA_WEIGHT,
                          metadata_result[1].exif_authenticity_score,
                          scores[Frame(1)], scores'[Frame(1)])]_vars

\* the EXIF block has run on a score exactly at 0.7
C4_Witness ==
    /\ pc[1] = "cv_inconsistencies"
    /\ metadata_result[1].exif_authenticity_score = D_0_7
    /\ FCmp(scores[Frame(1)].real, FZero) > 0
    /\ reasons[Frame(1)][Len(reasons[Frame(1)])].kind = "exif_high"

\* the scores and the trail after the detection block, from those before it
C5_Contribution(w, dr, before, after, trail, trail2) ==
    /\ (dr # NoneVal /\ dr.is_ai_generated) =>
          /\ after.ai = FAdd(before.ai, FMul(w, dr.confidence))
          /\ after.real = before.real
    /\ (dr # NoneVal /\ ~dr.is_ai_generated) =>
          /\ after.real = FAdd(before.real, FMul(w, dr.confidence))
          /\ after.ai = before.ai
    /\ dr = NoneVal =>
          /\ after = before
          /\ trail2 = Append(trail, [kind |-> "detection_skipped"])

\* C5: a present detection result adds AI_DETECTION_WEIGHT * confidence to ai
\* when is_ai_generated and to real otherwise, never to both; an absent one
\* changes neither score and appends exactly one entry saying that detection
\* was skipped.
C5_DetectionContribution ==
    [][BlockStep("cv_detection", "cv_final") =>
          C5_Contribution(service[self[1]].AI_DETECTION_WEIGHT, detection_result[1],
                          scores[Frame(1)], scores'[Frame(1)],
                          reasons[Frame(1)], reasons'[Frame(1)])]_vars

\* the detection block has run without a detection result
C5_Witness ==
    /\ pc[1] = "cv_final"
    /\ detection_result[1] = NoneVal
    /\ reasons[Frame(1)][Len(reasons[Frame(1)])].kind = "detection_skipped"

\* the positions inside _compute_verdict
VerdictPositions ==
    {"cv_hash", "cv_signatures", "cv_c2pa", "cv_exif", "cv_inconsistencies",
     "cv_detection", "cv_final"}

InVerdict(c) == pc[c] \in VerdictPositions

\* what one step of call 1 inside _compute_verdict may do to the scores
C6_Step(before, after) ==
    /\ FCmp(after.ai, before.ai) >= 0
    /\ FCmp(after.real, before.real) >= 0
    /\ FCmp(after.ai, FZero) >= 0
    /\ FCmp(after.real, FZero) >= 0
    /\ FCmp(FAdd(after.ai, after.real), FZero) > 0 =>
          /\ FCmp(FDiv(after.ai, FAdd(after.ai, after.real)), FZero) >= 0
          /\ FCmp(FDiv(after.ai, FAdd(after.ai, after.real)), D_1_0) <= 0

\* C6: throughout one evaluation of _compute_verdict, for similarity, EXIF
\* score and detection confidence in [0, 1] and non-negative weights, the ai
\* and real scores start at 0, are never decreased by a step, stay >= 0, and
\* whenever their total is > 0 the ratio ai / total lies in [0, 1].
C6_MonotoneAccumulators ==
    [][/\ BlockStep("verdict", "cv_hash") =>
             scores'[Frame(1)] = [ai |-> FZero, real |-> FZero]
       /\ InVerdict(1) => C6_Step(scores[Frame(1)], scores'[Frame(1)])]_vars

\* the class of a trail entry, in the order of the blocks
C7_Kinds ==
    <<{"hash_high", "hash_uncertain", "hash_low"}, {"signatures"},
      {"c2pa_ai", "c2pa_clean"}, {"exif_high", "exif_present", "exif_low"},
      {"inconsistencies"}, {"detection_ai", "detection_real", "detection_skipped"}>>

C7_Class(kind) == CHOOSE n \in 1..6 : kind \in C7_Kinds[n]

C7_Classes(rs) == {C7_Class(rs[i].kind) : i \in 1..Len(rs)}

\* a finished trail rs for the metadata mr, and the reasoning joined from it
C7_Complete(rs, mr, reasoning) ==
    /\ \A i \in 1..(Len(rs) - 1) : C7_Class(rs[i].kind) < C7_Class(rs[i + 1].kind)
    /\ C7_Class(rs[1].kind) = 1
    /\ C7_Class(rs[Len(rs)].kind) = 6
    /\ 4 \in C7_Classes(rs)
    /\ 2 \in C7_Classes(rs) <=> mr.ai_tool_signatures # << >>
    /\ 3 \in C7_Classes(rs) <=> mr.has_c2pa
    /\ 5 \in C7_Classes(rs) <=> mr.exif_inconsistencies # << >>
    /\ Len(reasoning) = 2 * Len(rs) - 1
    /\ \A i \in 1..Len(rs) : reasoning[2 * i - 1] = rs[i]

C7_Extends(rs, rs2) == Len(rs2) >= Len(rs) /\ SubSeq(rs2, 1, Len(rs)) = rs

\* C7: the reasoning trail is append-only and in causal order: it begins with
\* exactly one hash entry, then come the metadata entries in the order
\* signatures, C2PA, EXIF authenticity, inconsistencies (each only when its
\* condition holds, the EXIF one always exactly once), and it ends with
\* exactly one detection entry (result or skipped).
C7_TrailOrder ==
    /\ [](Returning(1) =>
             C7_Complete(reasons[Frame(1)], metadata_result[1], final[Frame(1)].returned[3]))
    /\ [][InVerdict(1) => C7_Extends(reasons[Frame(1)], reasons'[Frame(1)])]_vars

\* a trail with an entry of every class
C7_Witness ==
    /\ Returning(1)
    /\ Len(reasons[Frame(1)]) = 6
    /\ C7_Classes(reasons[Frame(1)]) = 1..6

C8_Signals(c) == <<service[self[c]], hash_result[c], metadata_result[c], detection_result[c]>>

C8_Returned(c) ==
    <<result[c].final_verdict, result[c].confidence_score, result[c].reasoning>>

\* a step that is not call c's leaves the locals of call c's invocation alone
C8_NoInterference ==
    \A c \in Calls :
        pc'[c] = pc[c] =>
            /\ scores'[Frame(c)] = scores[Frame(c)]
            /\ reasons'[Frame(c)] = reasons[Frame(c)]
            /\ final'[Frame(c)] = final[Frame(c)]

\* C8: two invocations with identical hash, metadata and detection signals
\* and identical weights and threshold return identical (verdict, confidence,
\* reasoning), whatever ran before or is interleaved with them on the same
\* instance: no invocation changes the instance or the locals of another.
C8_Deterministic ==
    /\ [](\A i \in Instances : service[i] = InitService)
    /\ [](\A c1, c2 \in Calls :
             (pc[c1] = "done" /\ pc[c2] = "done" /\ C8_Signals(c1) = C8_Signals(c2))
             => C8_Returned(c1) = C8_Returned(c2))
    /\ [][C8_NoInterference]_vars

\* two calls on the one instance have returned for the same signals
C8_Witness ==
    /\ pc[1] = "done" /\ pc[2] = "done"
    /\ self[1] = self[2]
    /\ C8_Signals(1) = C8_Signals(2)
    /\ C8_Returned(1) = C8_Returned(2)
    /\ metadata_result[1].ai_tool_signatures # << >>

\* C9: multiplying HASH_WEIGHT, METADATA_WEIGHT and AI_DETECTION_WEIGHT by the
\* same positive constant, with the same signals and threshold, leaves the
\* verdict and the confidence unchanged.
C9_ScaleInvariance ==
    (/\ pc[1] = "done" /\ pc[2] = "done"
     /\ \E k \in 1..MaxScale : service[2] = ScaledService(k)
     /\ <<hash_result[1], metadata_result[1], detection_result[1]>>
            = <<hash_result[2], metadata_result[2], detection_result[2]>>)
    => /\ result[1].final_verdict = result[2].final_verdict
       /\ result[1].confidence_score = result[2].confidence_score

C10_Stages == <<"hash_check", "metadata_analysis", "ai_detection", "compute_verdict">>

\* C10: within one analysis the hash outcome is obtained first, then the
\* metadata outcome, then the detection outcome (a result or its absence), and
\* only then fusion is invoked, exactly once; fusion is never invoked while an
\* outcome is unknown, and layers_executed lists the stages in the order they
\* ran.
C10_StageOrder ==
    \A c \in Calls :
        /\ C7_Extends(ran[c], C10_Stages)
        /\ C7_Extends(layers_executed[c], ran[c])
        /\ Len(ran[c]) = 4 =>
              /\ hash_result[c] # NoneVal
              /\ metadata_result[c] # NoneVal
              /\ layers_executed[c] = SubSeq(C10_Stages, 1, 3)
        /\ pc[c] = "done" =>
              /\ ran[c] = C10_Stages
              /\ result[c].layers_executed = SubSeq(ran[c], 1, 3)

\* an analysis has finished without a detection result
C10_Witness ==
    /\ pc[1] = "done"
    /\ ran[1] = C10_Stages
    /\ detection_result[1] = NoneVal
    /\ result[1].layers_executed = <<"hash_check", "metadata_analysis", "ai_detection">>

\* the values of the dict detect() returns from its except branch
C11_FailureValues ==
    [model_name |-> DetectionError.model_name,
     is_ai_generated |-> DetectionError.is_ai_generated,
     confidence |-> DetectionError.confidence]

C11_Verdicts == {"ai_generated", "likely_real", "uncertain"}

\* an analysis that finished without a detection result
C11_Degraded(c) ==
    /\ ran[c] = C10_Stages
    /\ result[c].detection_result = NoneVal
    /\ result[c].hash_result = hash_result[c]
    /\ result[c].metadata_result = metadata_result[c]
    /\ result[c].final_verdict \in C11_Verdicts
    /\ result[c].reasoning[Len(result[c].reasoning)] = [kind |-> "detection_skipped"]
    /\ scores[Frame(c)] =
          InconsistencyScores(service[self[c]],
              ExifScores(service[self[c]],
                  C2paScores(service[self[c]],
                      SignatureScores(service[self[c]],
                          HashScores(service[self[c]], InitScores, hash_result[c]),
                          metadata_result[c]),
                      metadata_result[c]),
                  metadata_result[c]),
              metadata_result[c])

\* C11: a failure inside detect (image decode, model load, inference) is not
\* raised to analyze_image: the call goes on from the detection layer to
\* fusion, the values of the failure never become a detection result (the
\* detection result is None), and the analysis then returns a verdict computed
\* from the hash and metadata signals alone, its trail ending with the entry
\* saying that detection was skipped.
C11_DetectionFailureAbsorbed ==
    /\ [](\A c \in Calls :
             /\ detection_result[c] # C11_FailureValues
             /\ pc[c] = "raised" => ran[c] = <<"hash_check">>
             /\ (pc[c] = "done" /\ detection_result[c] = NoneVal) => C11_Degraded(c))
    /\ [][\A c \in Calls : pc[c] = "layer3" /\ pc'[c] # pc[c] => pc'[c] = "verdict"]_vars

\* an analysis whose detection failed returned a verdict from a hash match
C11_Witness ==
    /\ pc[1] = "done"
    /\ result[1].detection_result = NoneVal
    /\ hash_result[1].is_ai
    /\ result[1].final_verdict \in C11_Verdicts
    /\ result[1].reasoning[Len(result[1].reasoning)] = [kind |-> "detection_skipped"]

\* C12: compute_hash never raises to its caller: once the hash layer has run,
\* analyze_image holds a hash result, and for bytes that do not decode as an
\* image that result is the neutral one, similarity 0 and no match.
C12_HashNeverRaises ==
    \A c \in Calls :
        ran[c] # << >> =>
            /\ pc[c] # "raised"
            /\ hash_result[c] # NoneVal
            /\ ~image[c].decodable =>
                  /\ hash_result[c].similarity = FZero
                  /\ ~hash_result[c].is_ai

\* a content type that is missing or does not start with "image/"
C14_NotImage(content_type) ==
    \/ content_type = NoneVal
    \/ Len(content_type.str) < 2
    \/ <<content_type.str[1], content_type.str[2]>> # <<"image", "/">>

C13_ErrorStatuses == {400, 500}

\* the invocations in the trace rn
C13_Invoked(rn) == {rn[i] : i \in 1..Len(rn)}

\* C13: a POST /analyze request whose bytes do not decode as an image fails as
\* a whole: the response is an error status without an AnalysisRecord, and
\* _compute_verdict was not called for it.
C13_UnreadableImageFails ==
    (/\ http.request # NoneVal
     /\ http.request.endpoint = "/analyze"
     /\ ~http.request.files[1].decodable)
    => /\ http.response.status \in C13_ErrorStatuses
       /\ "body" \notin DOMAIN http.response
       /\ "compute_verdict" \notin C13_Invoked(ran[1])

\* an upload declared image/png whose bytes are no image was answered
C13_Witness ==
    /\ http.request # NoneVal
    /\ http.request.endpoint = "/analyze"
    /\ ~C14_NotImage(http.request.files[1].content_type)
    /\ ~http.request.files[1].decodable
    /\ http.response.status = 500
    /\ "body" \notin DOMAIN http.response

\* C14: a POST /analyze request whose content type is missing or does not
\* start with "image/", and a POST /analyze/batch request with more than 50
\* files, are answered with status 400 without any provider or fusion being
\* invoked; a batch of exactly 50 files is not rejected.
C14_ValidationFirst ==
    http.request # NoneVal =>
        /\ (/\ http.request.endpoint = "/analyze"
            /\ C14_NotImage(http.request.files[1].content_type))
           => (http.response.status = 400 /\ ran[1] = << >>)
        /\ (/\ http.request.endpoint = "/analyze/batch"
            /\ Len(http.request.files) > 50)
           => (http.response.status = 400 /\ ran[1] = << >>)
        /\ (/\ http.request.endpoint = "/analyze/batch"
            /\ Len(http.request.files) = 50)
           => (http.response.status = 200 /\ "body" \in DOMAIN http.response)

\* a batch of exactly 50 files was answered with its 50 entries
C14_Witness ==
    /\ http.request # NoneVal
    /\ http.request.endpoint = "/analyze/batch"
    /\ Len(http.request.files) = 50
    /\ http.response.status = 200
    /\ Len(http.response.body.results) = 50

\* the entries of results that are records with the verdict
C15_Records(results, verdict) ==
    {k \in 1..Len(results) :
        /\ "final_verdict" \in DOMAIN results[k]
        /\ results[k].final_verdict = verdict}

\* C15: in the response of POST /analyze/batch, ai_generated_count is the
\* number of records in results whose verdict is "ai_generated",
\* likely_real_count the number whose verdict is "likely_real", and
\* uncertain_count the number whose verdict is "uncertain".
C15_CountsAggregated ==
    (/\ http.request # NoneVal
     /\ http.request.endpoint = "/analyze/batch"
     /\ http.response.status = 200)
    => /\ http.response.body.ai_generated_count
              = Cardinality(C15_Records(http.response.body.results, "ai_generated"))
       /\ http.response.body.likely_real_count
              = Cardinality(C15_Records(http.response.body.results, "likely_real"))
       /\ http.response.body.uncertain_count
              = Cardinality(C15_Records(http.response.body.results, "uncertain"))

C16_IsImageFile(file) == ~C14_NotImage(file.content_type)

\* the files of a batch that the loop analyses, in their order
C16_Analysed(files) == SelectSeq(files, C16_IsImageFile)

C16_ErrorFields == {"filename", "error", "status"}

\* the entry of an item whose analysis raised
C16_ErrorEntry(entry, file) ==
    /\ DOMAIN entry = C16_ErrorFields
    /\ entry.filename = file.filename
    /\ entry.status = "failed"

\* every analysed item has its own entry, an error entry when it raised
C16_Isolated(analysed, results) ==
    /\ Len(results) = Len(analysed)
    /\ \A k \in 1..Len(analysed) :
          /\ results[k].filename = analysed[k].filename
          /\ \/ C16_ErrorEntry(results[k], analysed[k])
             \/ "final_verdict" \in DOMAIN results[k]
          /\ ~analysed[k].decodable => C16_ErrorEntry(results[k], analysed[k])

C17_OrderPreserved ==
    (/\ http.request # NoneVal
     /\ http.request.endpoint = "/analyze/batch"
     /\ Len(http.request.files) <= 50)
    => /\ http.response.status = 200
       /\ Len(http.response.body.results) = Len(http.request.files)
       /\ \A k \in 1..Len(http.request.files) :
             http.response.body.results[k].filename = http.request.files[k].filename

\* C18: with HASH_WEIGHT > 0 the hash block adds at least HASH_WEIGHT * 0.5
\* to ai and real together, whichever of its three branches runs, so every
\* evaluation of _compute_verdict ends with total = ai + real >=
\* HASH_WEIGHT * 0.5 > 0 and never takes the total == 0 branch.
C18_TotalAtLeastHalfHashWeight ==
    /\ [][(/\ BlockStep("cv_hash", "cv_signatures")
           /\ FCmp(service[self[1]].HASH_WEIGHT, FZero) > 0)
          => FCmp(FAdd(scores'[Frame(1)].ai, scores'[Frame(1)].real),
                  C3_Half(service[self[1]].HASH_WEIGHT)) >= 0]_vars
    /\ []((Returning(1) /\ FCmp(service[self[1]].HASH_WEIGHT, FZero) > 0)
          => /\ FCmp(C2_TotalOf(1), C3_Half(service[self[1]].HASH_WEIGHT)) >= 0
             /\ FCmp(C2_TotalOf(1), FZero) > 0
             /\ final[Frame(1)].ai_ratio # NoneVal)

C19_Decided == {"ai_generated", "likely_real"}

\* C19: the confidence returned lies in [0.5, 1]; "ai_generated" and
\* "likely_real" carry a confidence >= CONFIDENCE_THRESHOLD, and "uncertain"
\* carries, before rounding, a confidence in [0.5, CONFIDENCE_THRESHOLD).
C19_ConfidenceSeparatesVerdicts ==
    Returning(1) =>
        /\ FCmp(final[Frame(1)].returned[2], D_0_5) >= 0
        /\ FCmp(final[Frame(1)].returned[2], D_1_0) <= 0
        /\ final[Frame(1)].verdict \in C19_Decided =>
              FCmp(final[Frame(1)].confidence, service[self[1]].CONFIDENCE_THRESHOLD) >= 0
        /\ final[Frame(1)].verdict = "uncertain" =>
              /\ FCmp(final[Frame(1)].confidence, D_0_5) >= 0
              /\ FCmp(final[Frame(1)].confidence, service[self[1]].CONFIDENCE_THRESHOLD) < 0

====
